---- MODULE Spec2Model ----
(***************************************************************************)
(* A model of the barbarian command line tool (src/src/barbarians/         *)
(* barbarian.py): the upload pipeline (command_upload), the bootstrap of   *)
(* the dedicated "barbarian" branch (make_empty_branch) and the push       *)
(* (push_barbarian_branch), run by invocations of the tool in one or two   *)
(* clones that share the remote "origin".  An invocation is one run of    *)
(* the command line tool; invocations are numbered in the order they       *)
(* start.                                                                  *)
(*                                                                         *)
(* git is modelled by the state it keeps: per clone the local branch, the  *)
(* remote-tracking ref and the auxiliary checkout .barbarian_upload; the   *)
(* branch of the remote; a store of commits (parent, tree).  A tree is a   *)
(* function from paths (tuples of names) to file contents.                 *)
(*                                                                         *)
(* Environment: operations that reach the network (git remote show, git    *)
(* fetch, git push, the registration call) and the file operations of the  *)
(* populate step can fail; git's local bookkeeping is a function of the    *)
(* repository state.  The clock gives each populate a fresh time stamp.    *)
(***************************************************************************)
EXTENDS Integers, Sequences, FiniteSets, TLC

VARIABLES
    cloneOf,       \* invocation -> the clone (root_dir) it runs in
    hasOrigin,     \* clone -> a remote "origin" is configured
    head,          \* clone -> HEAD of the repository: "none", "empty" (a commit
                   \* with no file) or "files"
    localBranch,   \* clone -> tip of refs/heads/barbarian, 0 when absent
    originRef,     \* clone -> refs/remotes/origin/barbarian, 0 when absent
    tmp,           \* clone -> the branch barbarian-tmp and the checkout
                   \* .barbarian.tmp exist
    wt,            \* clone -> the auxiliary checkout <root>/.barbarian_upload
    remoteBranch,  \* tip of barbarian on origin, 0 when absent
    commits,       \* the commits made so far; a commit's id is its index
    clock,         \* time stamps handed out so far
    cleanups,      \* times a user removed a leftover checkout by hand
    run,           \* invocation -> the state of its command
    fsys,          \* the paths of the file system that exist
    disc,          \* the discovery of the root directory by one invocation
    yml            \* conandata.yml of an export and the runs of the hook on it

vars == <<cloneOf, hasOrigin, head, localBranch, originRef, tmp, wt,
          remoteBranch, commits, clock, cleanups, run, fsys, disc, yml>>

\* Bound: the number of invocations of the tool in one behaviour.
NumInvocations == 2

Procs == 1 .. NumInvocations
Clones == {"c1", "c2"}

-----------------------------------------------------------------------------
(* The exported recipes an upload can be given.  The revision is the hash  *)
(* of the export, so each revision has one content.  The reference given   *)
(* on the command line names the export directory (name, version, user,   *)
(* channel); it is a sequence of the separators "/" and "@" and of the     *)
(* maximal runs of other characters between them.                          *)

ExportNames == {"conanfile.py", "conanmanifest.txt", "conandata.yml"}

Exports ==
    { [reference |-> <<"zlib", "/", "1.3", "@">>,
       name |-> "zlib", version |-> "1.3", rev |-> "abc123",
       export |-> {"conanfile.py", "conanmanifest.txt", "conandata.yml"},
       hasSources |-> FALSE, sources |-> {}],
      [reference |-> <<"zlib", "/", "1.3", "@", "user">>,
       name |-> "zlib", version |-> "1.3", rev |-> "def456",
       export |-> {"conanfile.py", "conanmanifest.txt", "conandata.yml"},
       hasSources |-> TRUE, sources |-> {"zlib.c"}],
      [reference |-> <<"zlib", "/", "1.3", "@", "user", "/", "testing">>,
       name |-> "zlib", version |-> "1.3", rev |-> "0a1b2c",
       export |-> {"conanfile.py", "conanmanifest.txt"},
       hasSources |-> TRUE, sources |-> {"zlib.c"}],
      \* a reference without '@': its export directory is never found
      [reference |-> <<"zlib", "/", "1.3">>,
       name |-> "zlib", version |-> "1.3", rev |-> "",
       export |-> {}, hasSources |-> FALSE, sources |-> {}] }

NoExport == [reference |-> <<>>, name |-> "", version |-> "", rev |-> "",
             export |-> {}, hasSources |-> FALSE, sources |-> {}]

\* the first index of separator sep in s, 0 when there is none
Find(s, sep) ==
    IF \E i \in DOMAIN s : s[i] = sep
    THEN CHOOSE i \in DOMAIN s : s[i] = sep /\ \A j \in 1 .. i - 1 : s[j] # sep
    ELSE 0

\* str.split(sep, 1)
Split1(s, sep) ==
    IF Find(s, sep) = 0 THEN <<s>>
    ELSE <<SubSeq(s, 1, Find(s, sep) - 1), SubSeq(s, Find(s, sep) + 1, Len(s))>>

RECURSIVE Split(_, _)
\* str.split(sep)
Split(s, sep) ==
    IF Find(s, sep) = 0 THEN <<s>>
    ELSE <<SubSeq(s, 1, Find(s, sep) - 1)>>
            \o Split(SubSeq(s, Find(s, sep) + 1, Len(s)), sep)

\* the setter of recipe_user_and_channel: err is the exception it raises
recipe_user_and_channel(reference) ==
    IF Len(Split1(reference, "@")) < 2
    THEN [err |-> "IndexError", user |-> <<>>, channel |-> <<>>]
    ELSE LET recipe_uc == Split(Split1(reference, "@")[2], "/")
         IN  [err |-> "none",
              user |-> IF Len(recipe_uc) > 0 /\ Len(recipe_uc[1]) > 0
                       THEN recipe_uc[1] ELSE <<"_">>,
              channel |-> IF Len(recipe_uc) > 1 /\ Len(recipe_uc[2]) > 0
                          THEN recipe_uc[2] ELSE <<"_">>]

Commands == {"upload", "branch_create", "branch_push"}

-----------------------------------------------------------------------------
(* Paths and trees.                                                        *)

EmptyTree == [q \in {} |-> <<>>]

recipe_publish_dir(e) == <<e.name, e.version>>
recipe_revision_pub_dir(e) == recipe_publish_dir(e) \o <<e.rev>>
FilesDir(e) == recipe_revision_pub_dir(e) \o <<"files">>
LatestPath(e) == recipe_publish_dir(e) \o <<"latest.json">>
SnapshotPath(e) == recipe_revision_pub_dir(e) \o <<"snapshot.json">>
FilesJsonPath(e) == recipe_revision_pub_dir(e) \o <<"files.json">>

IsUnder(path, dir) ==
    /\ Len(path) > Len(dir)
    /\ SubSeq(path, 1, Len(dir)) = dir

\* shutil.rmtree(dir, ignore_errors=True)
RmTree(t, dir) == [q \in {x \in DOMAIN t : ~IsUnder(x, dir)} |-> t[q]]

\* the files of t with content new[q] at every path q of new
WriteFiles(t, new) ==
    [q \in DOMAIN t \cup DOMAIN new |-> IF q \in DOMAIN new THEN new[q] ELSE t[q]]

\* os.listdir(dir): the names directly under dir
ListDir(t, dir) ==
    {q[Len(dir) + 1] : q \in {x \in DOMAIN t : IsUnder(x, dir) /\ Len(x) = Len(dir) + 1}}

(* File contents.  A recipe file is determined by the revision and its     *)
(* name; a .tgz written by tarfile in 'w|gz' mode holds its entries and    *)
(* the time of its creation (the gzip header); MD5 is injective on the     *)
(* contents the model distinguishes.                                       *)
Bytes(e, f) == <<"bytes", e.rev, f>>
Tgz(entries, mtime) == <<"tgz", entries, mtime>>
MD5(content) == <<"md5", content>>

-----------------------------------------------------------------------------
(* Commits.                                                                *)

Commit(parent, tree, msg, by) ==
    [parent |-> parent, tree |-> tree, msg |-> msg, by |-> by]

RECURSIVE Ancestor(_, _)
\* commit a is b or an ancestor of b
Ancestor(a, b) ==
    IF b = 0 THEN FALSE
    ELSE IF a = b THEN TRUE
    ELSE Ancestor(a, commits[b].parent)

RECURSIVE Root(_)
Root(b) == IF b = 0 THEN 0
           ELSE IF commits[b].parent = 0 THEN b
           ELSE Root(commits[b].parent)

Count(log, x) == Cardinality({i \in DOMAIN log : log[i] = x})

\* the command of p has run x / its bootstrap has run x
Ran(p, x) == Count(run[p].log, x) > 0
BootRan(p, x) == Count(run[p].boot.log, x) > 0

-----------------------------------------------------------------------------
(* The state of one command.                                               *)

NoWorktree == [present |-> FALSE, owner |-> 0, tree |-> EmptyTree]

\* neither the temporary branch nor the temporary checkout of the bootstrap
NoTmp == [branch |-> FALSE, checkout |-> FALSE]

\* The frame of make_empty_branch: where it is ("none": not called, or the
\* caller has gone on), what it found when it was called (the branch was
\* there locally / on origin), how the fetch ended, the commands it has run.
NoBoot == [state |-> "none", hadLocal |-> FALSE, remoteHad |-> FALSE,
           fetched |-> "none", log |-> <<>>]

IdleRun ==
    [pc |-> "idle", cmd |-> "", exp |-> NoExport, err |-> "none",
     failed |-> "none", acquired |-> FALSE, log |-> <<>>, wrote |-> {},
     now |-> 0, myCommit |-> 0, pushResult |-> "none", boot |-> NoBoot,
     pending |-> 0]

Clone(p) == cloneOf[p]

\* the command of p raised exception e in step s
Raise(r, e, s) == [r EXCEPT !.err = IF @ = "none" THEN e ELSE @,
                            !.failed = IF @ = "none" THEN s ELSE @]

Logged(r, x) == [r EXCEPT !.log = Append(@, x)]
BootLogged(r, x) == [r EXCEPT !.boot.log = Append(@, x)]

\* make_empty_branch has returned and its caller goes on
Returned(r) == [r EXCEPT !.boot = NoBoot]

-----------------------------------------------------------------------------
(* File-system paths, as os.path (posixpath) handles them: a path is the   *)
(* sequence of its separators "/" and of the names between them; "/a/b"    *)
(* is <<"/", "a", "/", "b">>, the root is <<"/">>, and <<>> is the empty   *)
(* string, which also stands for None (both are false in a test).          *)

\* Bound: the depth of the directories a discovery starts from.
MaxDepth == 3

DirNames == {"a", "b"}

RECURSIVE DirsAt(_)
\* the absolute, normalized paths of the directories at depth n
DirsAt(n) ==
    IF n = 0 THEN {<<"/">>}
    ELSE IF n = 1 THEN {<<"/", x>> : x \in DirNames}
    ELSE {d \o <<"/", x>> : d \in DirsAt(n - 1), x \in DirNames}

\* what os.path.abspath and os.getcwd can return
Dirs == UNION {DirsAt(n) : n \in 0 .. MaxDepth}

\* str.rfind(sep) + 1: the index of the last separator, 0 when there is none
RFind(s, sep) ==
    IF \E i \in DOMAIN s : s[i] = sep
    THEN CHOOSE i \in DOMAIN s : s[i] = sep /\ \A j \in i + 1 .. Len(s) : s[j] # sep
    ELSE 0

RECURSIVE RStrip(_, _)
\* str.rstrip(sep)
RStrip(s, sep) ==
    IF s # <<>> /\ s[Len(s)] = sep THEN RStrip(SubSeq(s, 1, Len(s) - 1), sep)
    ELSE s

\* mutant of dirname: the path itself
dirname_same(path) == path

\* posixpath.dirname: the part before the last separator, without its
\* trailing separators unless it holds nothing else
dirname(path) ==
    LET front == SubSeq(path, 1, RFind(path, "/"))
    IN  IF front # <<>> /\ \E i \in DOMAIN front : front[i] # "/"
        THEN RStrip(front, "/")
        ELSE front

\* posixpath.join(a, b)
join(a, b) ==
    IF b # <<>> /\ b[1] = "/" THEN b
    ELSE IF a = <<>> \/ a[Len(a)] = "/" THEN a \o b
    ELSE a \o <<"/">> \o b

\* os.path.exists
exists(path) == path \in fsys

\* the discovery before the setter of root_dir is called
IdleDisc == [pc |-> "idle", recipe_dir |-> <<>>, cwd |-> <<>>, dir |-> <<>>,
             root_dir |-> <<>>, err |-> "none", tests |-> 0]

\* no conandata.yml, and the hook has not run
Absent == [kind |-> "absent"]

NoYml == [version |-> <<>>, orig |-> Absent, file |-> Absent, prev |-> Absent,
          runs |-> 0, err |-> "none"]

\* what every behaviour starts from: no command has run, no checkout exists
InitRest ==
    /\ fsys = {}
    /\ disc = IdleDisc
    /\ yml = NoYml
    /\ originRef = [c \in Clones |-> 0]
    /\ tmp = [c \in Clones |-> NoTmp]
    /\ wt = [c \in Clones |-> NoWorktree]
    /\ commits = IF remoteBranch = 1 \/ \E c \in Clones : localBranch[c] = 1
                 THEN <<Commit(0, EmptyTree, <<"Barbarian upload branch.">>, 0)>>
                 ELSE <<>>
    /\ clock = 1
    /\ cleanups = 0
    /\ run = [p \in Procs |-> IdleRun]

(* The invocations run in one clone, which is in any of the states a       *)
(* repository can be in: with or without origin, without a commit, with    *)
(* an empty or a non-empty HEAD, the branch absent or holding its root     *)
(* commit, locally and on the remote.                                      *)
Init ==
    /\ cloneOf = [p \in Procs |-> "c1"]
    /\ hasOrigin \in [Clones -> BOOLEAN]
    /\ head \in [Clones -> {"none", "empty", "files"}]
    /\ remoteBranch \in {0, 1}
    /\ localBranch \in [Clones -> {0, 1}]
    \* HEAD is read only while the branch is absent
    /\ \A c \in Clones : localBranch[c] = 1 => head[c] = "files"
    \* the clone that is not used is in one state only
    /\ hasOrigin["c2"] /\ head["c2"] = "files" /\ localBranch["c2"] = 0
    /\ InitRest

(* Two publishers, each in a clone of a project with a history and an      *)
(* origin that has the branch; a clone has fetched the branch or not.      *)
InitClones ==
    /\ cloneOf \in [Procs -> Clones]
    /\ cloneOf[1] = "c1"
    /\ \E p \in Procs : cloneOf[p] = "c2"
    /\ hasOrigin = [c \in Clones |-> TRUE]
    /\ head = [c \in Clones |-> "files"]
    /\ remoteBranch = 1
    /\ localBranch \in [Clones -> {0, 1}]
    /\ InitRest
-----------------------------------------------------------------------------
(* The populate step of command_upload, lines 471-511.  A step state is    *)
(* the tree of the auxiliary checkout, the exception raised so far and the *)
(* steps done; a step does nothing once an exception was raised; failAt    *)
(* names the step in which a file operation fails ("none": no failure).    *)

PopulateSteps == <<"prepare", "copy", "export_tgz", "sources_tgz",
                   "snapshot", "files_json", "latest">>

StepSet == {PopulateSteps[i] : i \in DOMAIN PopulateSteps}

Skip(st, name, failAt) == st.err # "none"

Fail(st, name, e) == [st EXCEPT !.err = e, !.failed = name]

Done(st, name, tree) == [st EXCEPT !.tree = tree, !.wrote = @ \cup {name}]

\* mutant of StepPrepare: the revision directory is not removed
StepPrepareKeep(st, e, now, failAt) ==
    IF Skip(st, "prepare", failAt) THEN st
    ELSE IF failAt = "prepare" THEN Fail(st, "prepare", "OSError")
    ELSE Done(st, "prepare", st.tree)

\* mutant of StepPrepare: the directory of the (name, version) is removed
StepPrepareWide(st, e, now, failAt) ==
    IF Skip(st, "prepare", failAt) THEN st
    ELSE IF failAt = "prepare" THEN Fail(st, "prepare", "OSError")
    ELSE Done(st, "prepare", RmTree(st.tree, recipe_publish_dir(e)))

\* rmtree(self.recipe_revision_pub_dir, ignore_errors=True); os.makedirs(...)
StepPrepare(st, e, now, failAt) ==
    IF Skip(st, "prepare", failAt) THEN st
    ELSE IF failAt = "prepare" THEN Fail(st, "prepare", "OSError")
    ELSE Done(st, "prepare", RmTree(st.tree, recipe_revision_pub_dir(e)))

\* copytree(<export dir>/export, <revision dir>/files)
StepCopy(st, e, now, failAt) ==
    IF Skip(st, "copy", failAt) THEN st
    ELSE IF failAt = "copy" THEN Fail(st, "copy", "OSError")
    ELSE Done(st, "copy",
              WriteFiles(st.tree,
                         [q \in {FilesDir(e) \o <<f>> : f \in e.export}
                            |-> Bytes(e, q[Len(q)])]))

\* mutant of StepExportTgz: every file of export/ is put into the archive
StepExportTgzAll(st, e, now, failAt) ==
    IF Skip(st, "export_tgz", failAt) THEN st
    ELSE IF failAt = "export_tgz" THEN Fail(st, "export_tgz", "OSError")
    ELSE Done(st, "export_tgz",
              WriteFiles(st.tree,
                         [q \in {FilesDir(e) \o <<"conan_export.tgz">>} |->
                            Tgz({<<f, Bytes(e, f)>> : f \in e.export}, now)]))

\* conan_export.tgz: conandata.yml when it exists, else no entry
StepExportTgz(st, e, now, failAt) ==
    IF Skip(st, "export_tgz", failAt) THEN st
    ELSE IF failAt = "export_tgz" THEN Fail(st, "export_tgz", "OSError")
    ELSE Done(st, "export_tgz",
              WriteFiles(st.tree,
                         [q \in {FilesDir(e) \o <<"conan_export.tgz">>} |->
                            Tgz({<<f, Bytes(e, f)>> :
                                    f \in e.export \cap {"conandata.yml"}}, now)]))

\* conan_sources.tgz: tarfile.open creates the file, then os.listdir of
\* export_source raises FileNotFoundError when the directory does not exist
StepSourcesTgz(st, e, now, failAt) ==
    IF Skip(st, "sources_tgz", failAt) THEN st
    ELSE IF failAt = "sources_tgz" THEN Fail(st, "sources_tgz", "OSError")
    ELSE IF ~e.hasSources
         THEN Fail([st EXCEPT !.tree =
                        WriteFiles(st.tree,
                                   [q \in {FilesDir(e) \o <<"conan_sources.tgz">>}
                                      |-> Tgz({}, now)])],
                   "sources_tgz", "FileNotFoundError")
    ELSE Done(st, "sources_tgz",
              WriteFiles(st.tree,
                         [q \in {FilesDir(e) \o <<"conan_sources.tgz">>} |->
                            Tgz({<<f, <<"source", e.rev, f>>>> : f \in e.sources},
                                now)]))

\* the digests of the files listed in <revision dir>/files
Snapshot(t, e) ==
    [f \in ListDir(t, FilesDir(e)) |-> MD5(t[FilesDir(e) \o <<f>>])]

\* mutant of FilesJson: files.json lists the files copied from export/ only
FilesJsonOfExport(t, e) == [files |-> [f \in e.export |-> {}]]

FilesJson(t, e) == [files |-> [f \in ListDir(t, FilesDir(e)) |-> {}]]

StepSnapshot(st, e, now, failAt) ==
    IF Skip(st, "snapshot", failAt) THEN st
    ELSE IF failAt = "snapshot" THEN Fail(st, "snapshot", "OSError")
    ELSE Done(st, "snapshot",
              WriteFiles(st.tree,
                         [q \in {SnapshotPath(e)} |-> Snapshot(st.tree, e)]))

StepFilesJson(st, e, now, failAt) ==
    IF Skip(st, "files_json", failAt) THEN st
    ELSE IF failAt = "files_json" THEN Fail(st, "files_json", "OSError")
    ELSE Done(st, "files_json",
              WriteFiles(st.tree,
                         [q \in {FilesJsonPath(e)} |-> FilesJson(st.tree, e)]))

Latest(e, now) == [revision |-> e.rev, time |-> now]

\* mutant of StepLatest: latest.json is written whatever happened before
StepLatestAlways(st, e, now, failAt) ==
    [st EXCEPT !.tree = WriteFiles(st.tree, [q \in {LatestPath(e)} |-> Latest(e, now)]),
               !.wrote = @ \cup {"latest"}]

\* mutant of StepLatest: an existing latest.json is kept
StepLatestIfAbsent(st, e, now, failAt) ==
    IF Skip(st, "latest", failAt) THEN st
    ELSE IF failAt = "latest" THEN Fail(st, "latest", "OSError")
    ELSE IF LatestPath(e) \in DOMAIN st.tree THEN Done(st, "latest", st.tree)
    ELSE Done(st, "latest",
              WriteFiles(st.tree, [q \in {LatestPath(e)} |-> Latest(e, now)]))

StepLatest(st, e, now, failAt) ==
    IF Skip(st, "latest", failAt) THEN st
    ELSE IF failAt = "latest" THEN Fail(st, "latest", "OSError")
    ELSE Done(st, "latest",
              WriteFiles(st.tree, [q \in {LatestPath(e)} |-> Latest(e, now)]))

PopulateResult(tree, e, now, failAt) ==
    LET s0 == [tree |-> tree, err |-> "none", failed |-> "none", wrote |-> {}]
        s1 == StepPrepare(s0, e, now, failAt)
        s2 == StepCopy(s1, e, now, failAt)
        s3 == StepExportTgz(s2, e, now, failAt)
        s4 == StepSourcesTgz(s3, e, now, failAt)
        s5 == StepSnapshot(s4, e, now, failAt)
        s6 == StepFilesJson(s5, e, now, failAt)
    IN  StepLatest(s6, e, now, failAt)

-----------------------------------------------------------------------------
(* git, as the commands of the tool use it.                                *)

\* have_branch: git branch --list barbarian names the branch
HaveBranch(c) == localBranch[c] # 0

\* git fetch --quiet origin barbarian
FetchSucceeds(c, netOk) == hasOrigin[c] /\ netOk /\ remoteBranch # 0

\* mutants of SynthNeeded: the synthesis never runs / always runs
SynthNever(c) == FALSE
SynthAlways(c) == TRUE

\* the second test of make_empty_branch: the branch has to be synthesized
SynthNeeded(c) == ~HaveBranch(c)

\* the tracked files of HEAD, which a new checkout starts with
HeadTree(c) ==
    IF head[c] = "files"
    THEN [q \in {<<"README.md">>, <<"src", "main.c">>} |-> <<"app", q>>]
    ELSE EmptyTree

\* git worktree add --quiet -b barbarian-tmp <cwd>/.barbarian.tmp
TmpWorktreeAddFails(c) == head[c] = "none" \/ tmp[c].branch \/ tmp[c].checkout

\* the branch and the checkout that git worktree add -b creates
WorktreeAddTmp(t) == [t EXCEPT !.branch = TRUE, !.checkout = TRUE]

\* git branch --quiet -D barbarian-tmp
BranchDeleteTmp(t) == [t EXCEPT !.branch = FALSE]

\* git worktree remove <cwd>/.barbarian.tmp
WorktreeRemoveTmp(t) == [t EXCEPT !.checkout = FALSE]

\* mutant of OrphanTree: git rm is not run
OrphanTreeOfHead(c) == HeadTree(c)

\* the tree of the root commit: git checkout --orphan keeps the files of
\* HEAD in the index, git rm -rf . removes every one of them
OrphanTree(c) == RmTree(HeadTree(c), <<>>)

\* git rm --quiet -rf . in the orphan checkout: no file matches in an empty tree
GitRmFails(c) == head[c] = "empty"

\* mutant of WorktreeAddFails: an occupied path does not stop the checkout
WorktreeAddForced(c) == ~HaveBranch(c)

\* git worktree add <root>/.barbarian_upload barbarian
WorktreeAddFails(c) == wt[c].present \/ ~HaveBranch(c)

\* mutant of CommitParent: the checkout is made from origin/barbarian
CommitOnOrigin(c) == originRef[c]

\* the commit that git commit in the auxiliary checkout builds on
CommitParent(c) == localBranch[c]

\* mutant of PushAccepted: git push --force
PushForced(c, netOk) == hasOrigin[c] /\ netOk

\* git push origin barbarian: a fast-forward of the remote branch
PushAccepted(c, netOk) ==
    /\ hasOrigin[c]
    /\ netOk
    /\ remoteBranch = 0 \/ Ancestor(remoteBranch, localBranch[c])

\* mutant of OnBodyRaise: no finally block
OnBodyRaiseLeave == "done"

\* mutant of OnBodyRaise: the exception is dropped and the commit is made
OnBodyRaiseCommit == "commit"

\* where command_upload goes when a step of the try block raises: finally
OnBodyRaise == "teardown"

\* mutant of OnAcquireRaise: git worktree add inside the try block
OnAcquireRaiseFinally == "teardown"

\* where command_upload goes when git worktree add raises: out of the command
OnAcquireRaise == "done"

\* what follows make_barbarian_branch in each command
AfterBoot(cmd) == CASE cmd = "upload" -> "acquire"
                    [] cmd = "branch_create" -> "done"
                    [] cmd = "branch_push" -> "push"

\* the checkout is there and the command that added it is no longer running
Stale(c) ==
    /\ wt[c].present
    /\ run[wt[c].owner].pc \in {"done", "killed"}

-----------------------------------------------------------------------------
(* The commands.                                                           *)

\* the tip of the local branch, when it is the commit of an upload that has
\* ended and whose push failed; else 0
Unpushed(c) ==
    IF \E q \in Procs : /\ cloneOf[q] = c
                         /\ run[q].pc = "done"
                         /\ run[q].pushResult \in {"rejected", "failed"}
                         /\ run[q].myCommit # 0
                         /\ run[q].myCommit = localBranch[c]
    THEN localBranch[c]
    ELSE 0

\* a command is started: command_upload computes its state (lines 448-456),
\* where the setter of recipe_user_and_channel can raise, which ends the
\* command; command_branch goes to the bootstrap; "pending" notes the commit
\* that an earlier upload of this clone left unpushed
Start(p, cmd, e) ==
    LET raised == IF cmd = "upload"
                  THEN recipe_user_and_channel(e.reference).err
                  ELSE "none"
    IN
    /\ run[p].pc = "idle"
    /\ \A q \in Procs : q < p => run[q].pc # "idle"
    /\ run' = [run EXCEPT ![p] =
                 [IdleRun EXCEPT
                    !.pc = IF cmd # "upload" THEN "boot"
                           ELSE IF raised = "none" THEN "check" ELSE "done",
                    !.err = raised,
                    !.failed = IF raised = "none" THEN "none" ELSE "compute_state",
                    !.cmd = cmd,
                    !.exp = e,
                    !.pending = Unpushed(Clone(p))]]
    /\ UNCHANGED <<yml, fsys, disc, cloneOf, hasOrigin, head, localBranch, originRef, tmp, wt,
                   remoteBranch, commits, clock, cleanups>>

\* mutant of CheckRemote: the outcome of git remote show is ignored
CheckRemoteIgnored(p, netOk) ==
    /\ run[p].pc = "check"
    /\ run' = [run EXCEPT ![p] = [Logged(@, "remote_show") EXCEPT !.pc = "boot"]]
    /\ UNCHANGED <<yml, fsys, disc, cloneOf, hasOrigin, head, localBranch, originRef, tmp, wt,
                   remoteBranch, commits, clock, cleanups>>

\* command_upload, lines 457-464: git remote show origin
CheckRemote(p, netOk) ==
    /\ run[p].pc = "check"
    /\ run' = [run EXCEPT ![p] =
                 IF hasOrigin[Clone(p)] /\ netOk
                 THEN [Logged(@, "remote_show") EXCEPT !.pc = "boot"]
                 ELSE [Raise(Logged(@, "remote_show"), "UsageError", "remote_show")
                         EXCEPT !.pc = "done"]]
    /\ UNCHANGED <<yml, fsys, disc, cloneOf, hasOrigin, head, localBranch, originRef, tmp, wt,
                   remoteBranch, commits, clock, cleanups>>

\* mutant of BootFetch: the branch is fetched also when it exists locally,
\* and the local branch is set to what was fetched
BootFetchReset(p, netOk) ==
    LET c == Clone(p)
        fetchOk == FetchSucceeds(c, netOk)
        r == [run[p] EXCEPT !.pc = "synth",
                            !.boot.state = "running",
                            !.boot.hadLocal = HaveBranch(c),
                            !.boot.remoteHad = hasOrigin[c] /\ remoteBranch # 0,
                            !.boot.fetched = IF fetchOk THEN "ok" ELSE "failed"]
    IN  /\ run[p].pc = "boot"
        /\ originRef' = [originRef EXCEPT ![c] = IF fetchOk THEN remoteBranch ELSE @]
        /\ localBranch' = [localBranch EXCEPT ![c] =
                              IF fetchOk THEN remoteBranch
                              ELSE IF HaveBranch(c) THEN @ ELSE originRef[c]]
        /\ run' = [run EXCEPT ![p] = BootLogged(r, "fetch")]
        /\ UNCHANGED <<yml, fsys, disc, cloneOf, hasOrigin, head, tmp, wt, remoteBranch, commits,
                       clock, cleanups>>

\* make_empty_branch, lines 349-365: fetch the branch and create it from
\* origin/barbarian; both failures are swallowed
BootFetch(p, netOk) ==
    LET c == Clone(p)
        fetchOk == FetchSucceeds(c, netOk)
        ref == IF fetchOk THEN remoteBranch ELSE originRef[c]
        r == [run[p] EXCEPT !.pc = "synth",
                            !.boot.state = "running",
                            !.boot.hadLocal = HaveBranch(c),
                            !.boot.remoteHad = hasOrigin[c] /\ remoteBranch # 0]
    IN  /\ run[p].pc = "boot"
        /\ IF HaveBranch(c)
           THEN /\ run' = [run EXCEPT ![p] = r]
                /\ UNCHANGED <<originRef, localBranch>>
           ELSE /\ originRef' = [originRef EXCEPT ![c] = ref]
                /\ localBranch' = [localBranch EXCEPT ![c] = ref]
                /\ run' = [run EXCEPT ![p] =
                             [BootLogged(BootLogged(r, "fetch"), "branch_from_origin")
                                EXCEPT !.boot.fetched =
                                          IF fetchOk THEN "ok" ELSE "failed"]]
        /\ UNCHANGED <<yml, fsys, disc, cloneOf, hasOrigin, head, tmp, wt, remoteBranch, commits,
                       clock, cleanups>>

\* make_empty_branch, lines 366-386: the orphan branch is synthesized
BootSynth(p) ==
    LET c == Clone(p)
        r == run[p]
    IN  /\ r.pc = "synth"
        /\ IF ~SynthNeeded(c)
           THEN /\ run' = [run EXCEPT ![p] =
                             [r EXCEPT !.boot.state = "returned",
                                       !.pc = AfterBoot(r.cmd)]]
                /\ UNCHANGED <<tmp, commits, localBranch>>
           ELSE IF TmpWorktreeAddFails(c)
           THEN /\ run' = [run EXCEPT ![p] =
                             [Raise(BootLogged(r, "worktree_add_tmp"),
                                    "UsageError", "worktree_add_tmp")
                                EXCEPT !.boot.state = "raised", !.pc = "done"]]
                /\ UNCHANGED <<tmp, commits, localBranch>>
           ELSE IF GitRmFails(c)
           THEN /\ run' = [run EXCEPT ![p] =
                             [Raise(BootLogged(r, "worktree_add_tmp"),
                                    "CalledProcessError", "git_rm")
                                EXCEPT !.boot.state = "raised", !.pc = "done"]]
                /\ tmp' = [tmp EXCEPT ![c] = WorktreeAddTmp(@)]
                /\ UNCHANGED <<commits, localBranch>>
           ELSE /\ commits' = Append(commits,
                                     Commit(0, OrphanTree(c),
                                            <<"Barbarian upload branch.">>, p))
                /\ localBranch' = [localBranch EXCEPT ![c] = Len(commits) + 1]
                /\ run' = [run EXCEPT ![p] =
                             [BootLogged(BootLogged(r, "worktree_add_tmp"),
                                         "orphan_commit")
                                EXCEPT !.boot.state = "returned",
                                       !.pc = AfterBoot(r.cmd)]]
                /\ tmp' = [tmp EXCEPT ![c] =
                             WorktreeRemoveTmp(BranchDeleteTmp(WorktreeAddTmp(@)))]
        /\ UNCHANGED <<yml, fsys, disc, cloneOf, hasOrigin, head, originRef, wt, remoteBranch,
                       clock, cleanups>>

\* command_upload, lines 467-469: the auxiliary checkout is added; a failure
\* is raised before the try block is entered
Acquire(p) ==
    LET c == Clone(p)
        r == Logged(Returned(run[p]), "worktree_add")
    IN  /\ run[p].pc = "acquire"
        /\ IF WorktreeAddFails(c)
           THEN /\ run' = [run EXCEPT ![p] =
                             [Raise(r, "CalledProcessError", "worktree_add")
                                EXCEPT !.pc = OnAcquireRaise]]
                /\ UNCHANGED wt
           ELSE /\ wt' = [wt EXCEPT ![c] =
                            [present |-> TRUE, owner |-> p,
                             tree |-> commits[localBranch[c]].tree]]
                /\ run' = [run EXCEPT ![p] =
                             [r EXCEPT !.acquired = TRUE, !.pc = "populate"]]
        /\ UNCHANGED <<yml, fsys, disc, cloneOf, hasOrigin, head, localBranch, originRef, tmp,
                       remoteBranch, commits, clock, cleanups>>

\* command_upload, lines 470-511: the revision record and latest.json are
\* written into the auxiliary checkout
Populate(p, failAt) ==
    LET c == Clone(p)
        res == PopulateResult(wt[c].tree, run[p].exp, clock, failAt)
    IN  /\ run[p].pc = "populate"
        /\ wt[c].present
        /\ wt' = [wt EXCEPT ![c].tree = res.tree]
        /\ clock' = clock + 1
        /\ run' = [run EXCEPT ![p] =
                     [@ EXCEPT !.wrote = res.wrote,
                               !.now = clock,
                               !.err = res.err,
                               !.failed = res.failed,
                               !.pc = IF res.err = "none" THEN "commit"
                                      ELSE OnBodyRaise]]
        /\ UNCHANGED <<yml, fsys, disc, cloneOf, hasOrigin, head, localBranch, originRef, tmp,
                       remoteBranch, commits, cleanups>>

\* command_upload, lines 512-518: git add ., git status, git commit
CommitChanges(p, ioOk) ==
    LET c == Clone(p)
        r == run[p]
        parent == CommitParent(c)
        msg == <<"Upload", r.exp.name, r.exp.version, r.exp.rev>>
    IN  /\ r.pc = "commit"
        /\ wt[c].present
        /\ IF ~ioOk
           THEN /\ run' = [run EXCEPT ![p] =
                             [Raise(Logged(r, "add"), "CalledProcessError", "add")
                                EXCEPT !.pc = OnBodyRaise]]
                /\ UNCHANGED <<commits, localBranch>>
           ELSE IF parent # 0 /\ commits[parent].tree = wt[c].tree
           THEN \* nothing to commit
                /\ run' = [run EXCEPT ![p] =
                             [Raise(Logged(Logged(r, "add"), "commit"),
                                    "CalledProcessError", "commit")
                                EXCEPT !.pc = OnBodyRaise]]
                /\ UNCHANGED <<commits, localBranch>>
           ELSE /\ commits' = Append(commits, Commit(parent, wt[c].tree, msg, p))
                /\ localBranch' = [localBranch EXCEPT ![c] = Len(commits) + 1]
                /\ run' = [run EXCEPT ![p] =
                             [Logged(Logged(r, "add"), "commit")
                                EXCEPT !.myCommit = Len(commits) + 1,
                                       !.pc = "push"]]
        /\ UNCHANGED <<yml, fsys, disc, cloneOf, hasOrigin, head, originRef, tmp, wt, remoteBranch,
                       clock, cleanups>>

\* push_barbarian_branch, lines 391-393 (from command_upload, line 520, or
\* from command_branch): the bootstrap finds the branch, then git push
Push(p, netOk) ==
    LET c == Clone(p)
        r == Logged(Returned(run[p]), "push")
        ok == PushAccepted(c, netOk)
    IN  /\ run[p].pc = "push"
        /\ HaveBranch(c)
        /\ IF ok
           THEN /\ remoteBranch' = localBranch[c]
                /\ originRef' = [originRef EXCEPT ![c] = localBranch[c]]
                /\ run' = [run EXCEPT ![p] =
                             [r EXCEPT !.pushResult = "accepted",
                                       !.pc = IF r.cmd = "upload" THEN "register"
                                              ELSE "done"]]
           ELSE /\ run' = [run EXCEPT ![p] =
                             [Raise(r, "CalledProcessError", "push")
                                EXCEPT !.pushResult = IF hasOrigin[c] /\ netOk
                                                      THEN "rejected" ELSE "failed",
                                       !.pc = IF r.cmd = "upload" THEN OnBodyRaise
                                              ELSE "done"]]
                /\ UNCHANGED <<remoteBranch, originRef>>
        /\ UNCHANGED <<yml, fsys, disc, cloneOf, hasOrigin, head, localBranch, tmp, wt, commits,
                       clock, cleanups>>

\* command_upload, lines 521-528: the recipe is fetched from the Barbarian
\* remote to register the revision
Register(p, ok) ==
    LET r == Logged(run[p], "register")
    IN  /\ run[p].pc = "register"
        /\ run' = [run EXCEPT ![p] =
                     IF ok THEN [r EXCEPT !.pc = "teardown"]
                     ELSE [Raise(r, "ConanException", "register")
                             EXCEPT !.pc = OnBodyRaise]]
        /\ UNCHANGED <<yml, fsys, disc, cloneOf, hasOrigin, head, localBranch, originRef, tmp, wt,
                       remoteBranch, commits, clock, cleanups>>

\* command_upload, lines 529-532: git worktree remove -f; an exception of
\* the try block goes on to the caller
Teardown(p) ==
    LET c == Clone(p)
        r == Logged(run[p], "worktree_remove")
    IN  /\ run[p].pc = "teardown"
        /\ IF wt[c].present
           THEN /\ wt' = [wt EXCEPT ![c] = NoWorktree]
                /\ run' = [run EXCEPT ![p] = [r EXCEPT !.pc = "done"]]
           ELSE /\ run' = [run EXCEPT ![p] =
                             [Raise(r, "CalledProcessError", "worktree_remove")
                                EXCEPT !.pc = "done"]]
                /\ UNCHANGED wt
        /\ UNCHANGED <<yml, fsys, disc, cloneOf, hasOrigin, head, localBranch, originRef, tmp,
                       remoteBranch, commits, clock, cleanups>>

\* the process is interrupted between the acquisition and the teardown:
\* the finally block does not run, and the process reports nothing
Kill(p) ==
    /\ run[p].acquired
    /\ run[p].pc \in {"populate", "commit", "push", "register", "teardown"}
    /\ run' = [run EXCEPT ![p] =
                 [IdleRun EXCEPT !.pc = "killed", !.cmd = run[p].cmd,
                                 !.acquired = TRUE]]
    /\ UNCHANGED <<yml, fsys, disc, cloneOf, hasOrigin, head, localBranch, originRef, tmp, wt,
                   remoteBranch, commits, clock, cleanups>>

\* a user removes a leftover checkout by hand
ManualCleanup(c) ==
    /\ Stale(c)
    /\ wt' = [wt EXCEPT ![c] = NoWorktree]
    /\ cleanups' = cleanups + 1
    /\ UNCHANGED <<yml, fsys, disc, cloneOf, hasOrigin, head, localBranch, originRef, tmp,
                   remoteBranch, commits, clock, run>>

Next ==
    \/ \E p \in Procs : \E e \in Exports : Start(p, "upload", e)
    \/ \E p \in Procs : \E cmd \in {"branch_create", "branch_push"} :
          Start(p, cmd, NoExport)
    \/ \E p \in Procs : \E netOk \in BOOLEAN : CheckRemote(p, netOk)
    \/ \E p \in Procs : \E netOk \in BOOLEAN : BootFetch(p, netOk)
    \/ \E p \in Procs : BootSynth(p)
    \/ \E p \in Procs : Acquire(p)
    \/ \E p \in Procs : \E failAt \in StepSet \cup {"none"} : Populate(p, failAt)
    \/ \E p \in Procs : \E ioOk \in BOOLEAN : CommitChanges(p, ioOk)
    \/ \E p \in Procs : \E netOk \in BOOLEAN : Push(p, netOk)
    \/ \E p \in Procs : \E ok \in BOOLEAN : Register(p, ok)
    \/ \E p \in Procs : Teardown(p)
    \/ \E p \in Procs : Kill(p)
    \/ \E c \in Clones : ManualCleanup(c)

Spec == Init /\ [][Next]_vars

SpecClones == InitClones /\ [][Next]_vars

(* A branch with a history: a record of another package and a record of   *)
(* one of the revisions, both published at time 1; the record of the       *)
(* revision may hold a file that the export of the revision no longer has. *)
OtherExport ==
    [reference |-> <<"bzip2", "/", "1.0", "@">>,
     name |-> "bzip2", version |-> "1.0", rev |-> "77aa01",
     export |-> {"conanfile.py", "conanmanifest.txt"},
     hasSources |-> TRUE, sources |-> {"bzip2.c"}]

OldFile(e) == FilesDir(e) \o <<"README.md">>

HistoryTree(e, old) ==
    LET other == PopulateResult(EmptyTree, OtherExport, 1, "none").tree
        rec == PopulateResult(other, e, 1, "none").tree
    IN  IF old
        THEN WriteFiles(rec, [q \in {OldFile(e)} |-> Bytes(e, "README.md")])
        ELSE rec

InitHistory ==
    /\ cloneOf = [p \in Procs |-> "c1"]
    /\ hasOrigin = [c \in Clones |-> TRUE]
    /\ head = [c \in Clones |-> "files"]
    /\ \E e \in {x \in Exports : x.hasSources} : \E old \in BOOLEAN :
          commits = << Commit(0, EmptyTree, <<"Barbarian upload branch.">>, 0),
                       Commit(1, HistoryTree(e, old),
                              <<"Upload", e.name, e.version, e.rev>>, 0) >>
    /\ localBranch = [c \in Clones |-> IF c = "c1" THEN 2 ELSE 0]
    /\ originRef = localBranch
    /\ remoteBranch = 2
    /\ tmp = [c \in Clones |-> NoTmp]
    /\ wt = [c \in Clones |-> NoWorktree]
    /\ clock = 2
    /\ cleanups = 0
    /\ run = [p \in Procs |-> IdleRun]
    /\ fsys = {}
    /\ disc = IdleDisc
    /\ yml = NoYml

SpecHistory == InitHistory /\ [][Next]_vars

(* The discovery of the root directory (the setter of root_dir, lines      *)
(* 140-154) by one invocation: the file system holds .git in no directory, *)
(* in one, or in a directory and in one of its ancestors; the command was  *)
(* given a path (recipe_dir is its absolute path) or not (the current      *)
(* directory is used).                                                     *)
\* directory a is directory d or one of the directories above it
SelfOrAbove(a, d) ==
    \/ a = d
    \/ a = <<"/">>
    \/ /\ Len(a) < Len(d)
       /\ SubSeq(d, 1, Len(a)) = a
       /\ d[Len(a) + 1] = "/"

GitPlaces ==
    {{}} \cup UNION {{{d, a} : a \in {x \in Dirs : SelfOrAbove(x, d)}} : d \in Dirs}

InitRoot ==
    /\ cloneOf = [p \in Procs |-> "c1"]
    /\ hasOrigin = [c \in Clones |-> TRUE]
    /\ head = [c \in Clones |-> "files"]
    /\ localBranch = [c \in Clones |-> 0]
    /\ originRef = [c \in Clones |-> 0]
    /\ remoteBranch = 0
    /\ tmp = [c \in Clones |-> NoTmp]
    /\ wt = [c \in Clones |-> NoWorktree]
    /\ commits = <<>>
    /\ clock = 1
    /\ cleanups = 0
    /\ run = [p \in Procs |-> IdleRun]
    /\ \E g \in GitPlaces : fsys = {join(d, <<".git">>) : d \in g}
    /\ \E given \in BOOLEAN : \E d \in Dirs :
          disc = [IdleDisc EXCEPT !.recipe_dir = IF given THEN d ELSE <<>>,
                                  !.cwd = IF given THEN <<"/">> ELSE d]
    /\ yml = NoYml

\* root_dir.setter, lines 142-144: nothing to do when the root is known,
\* else the walk starts at the recipe directory or at the current directory
RootDirSet ==
    /\ disc.pc \in {"idle", "found"}
    /\ disc' = IF disc.root_dir # <<>> THEN disc
               ELSE [disc EXCEPT !.pc = "walk",
                                 !.dir = IF disc.recipe_dir # <<>>
                                         THEN disc.recipe_dir ELSE disc.cwd]
    /\ UNCHANGED <<cloneOf, hasOrigin, head, localBranch, originRef, tmp, wt,
                   remoteBranch, commits, clock, cleanups, run, fsys, yml>>

\* root_dir.setter, lines 145-154: one test of the loop condition, and the
\* loop body or the statements after the loop
RootDirWalk ==
    LET parent == dirname(disc.dir)
    IN  /\ disc.pc = "walk"
        /\ disc' = IF exists(join(disc.dir, <<".git">>))
                   THEN [disc EXCEPT !.pc = "found", !.root_dir = disc.dir,
                                     !.tests = @ + 1]
                   ELSE IF parent = disc.dir
                   THEN [disc EXCEPT !.pc = "raised", !.err = "UsageError",
                                     !.tests = @ + 1]
                   ELSE [disc EXCEPT !.dir = parent, !.tests = @ + 1]
        /\ UNCHANGED <<cloneOf, hasOrigin, head, localBranch, originRef, tmp, wt,
                       remoteBranch, commits, clock, cleanups, run, fsys, yml>>

NextRoot == RootDirSet \/ RootDirWalk

\* the process runs: a statement that can be executed is executed
SpecRoot == InitRoot /\ [][NextRoot]_vars /\ WF_vars(NextRoot)

(* The hook post_export (hooks/barbarian_clean_conandata_yml.py).  A YAML  *)
(* scalar is the sequence of its digit groups, dots and words: 1.3 is      *)
(* <<"1", ".", "3">>.  conandata.yml is absent, empty, or a mapping of     *)
(* sections; a section is empty (null), a string, a list of strings, or a  *)
(* mapping whose keys are version numbers, written quoted or plain.        *)

\* Bound: the runs of the hook on one export directory.
MaxHookRuns == 2

Sections == {"sources", "patches"}

Versions == {<<"1", ".", "3">>, <<"1", ".", "2", ".", "11">>}

\* the keys of a section as the file writes them
KeyTokens == [text : Versions, quoted : BOOLEAN]

\* the resolver of YAML: a plain scalar of the form digits.digits is a float
LooksFloat(text) ==
    /\ Len(text) = 3
    /\ text[2] = "."
    /\ text[1] # "." /\ text[3] # "."

\* yaml.safe_load of a key
LoadKey(k) ==
    IF ~k.quoted /\ LooksFloat(k.text)
    THEN [type |-> "float", text |-> k.text]
    ELSE [type |-> "str", text |-> k.text]

\* yaml.safe_dump of a key: a string that would be read as a number is quoted
DumpKey(v) ==
    IF v.type = "str"
    THEN [text |-> v.text, quoted |-> LooksFloat(v.text)]
    ELSE [text |-> v.text, quoted |-> FALSE]

\* what is stored under a key of a section of the file
Data(section, k) == <<"data", section, k.text, k.quoted>>

Null == [kind |-> "null"]

\* the mappings of a section: no two keys that are read as the same key
SectionMaps(section) ==
    { [kind |-> "map", entries |-> [k \in ks |-> Data(section, k)]] :
        ks \in {x \in SUBSET KeyTokens :
                  \A a, b \in x : LoadKey(a) = LoadKey(b) => a = b} }

SectionValues(section) ==
    SectionMaps(section)
    \cup {Null}
    \cup {[kind |-> "str", s |-> <<"bob">>],
          [kind |-> "str", s |-> <<"zlib", "-", "1", ".", "3">>]}
    \cup {[kind |-> "list", items |-> << <<"1", ".", "3">>,
                                         <<"1", ".", "2", ".", "11">> >>]}

\* the files conandata.yml can be
YmlFiles ==
    {Absent, [kind |-> "empty"]}
    \cup UNION { { [kind |-> "map", sections |-> f] :
                     f \in { g \in [ss -> UNION {SectionValues(x) : x \in ss}] :
                               \A x \in ss : g[x] \in SectionValues(x) } } :
                 ss \in SUBSET Sections }

\* yaml.safe_load of a section of the file
LoadValue(v) ==
    IF v.kind = "map"
    THEN [kind |-> "map",
          entries |-> [pk \in {LoadKey(k) : k \in DOMAIN v.entries} |->
                         v.entries[CHOOSE k \in DOMAIN v.entries : LoadKey(k) = pk]]]
    ELSE v

\* yaml.safe_load(conans.tools.load(path)): None for an empty file
safe_load(file) ==
    IF file.kind = "empty" THEN [kind |-> "None"]
    ELSE [kind |-> "map",
          sections |-> [x \in DOMAIN file.sections |-> LoadValue(file.sections[x])]]

\* yaml.safe_dump of a section
DumpValue(v) ==
    IF v.kind = "map"
    THEN [kind |-> "map",
          entries |-> [k \in {DumpKey(pk) : pk \in DOMAIN v.entries} |->
                         v.entries[CHOOSE pk \in DOMAIN v.entries : DumpKey(pk) = k]]]
    ELSE v

\* yaml.safe_dump(conandata_yml_out)
safe_dump(data) ==
    [kind |-> "map",
     sections |-> [x \in DOMAIN data.sections |-> DumpValue(data.sections[x])]]

\* the version as a key: str(conanfile.version)
StrKey(version) == [type |-> "str", text |-> version]

\* sequence v is a part of sequence w (the test "in" of two strings)
IsPartOf(v, w) ==
    \E i \in 1 .. Len(w) - Len(v) + 1 : SubSeq(w, i, i + Len(v) - 1) = v

\* the test `version in conandata_yml_in[section]`: "error" is a TypeError
VersionIn(version, v) ==
    CASE v.kind = "map" -> IF StrKey(version) \in DOMAIN v.entries THEN "yes" ELSE "no"
      [] v.kind = "str" -> IF IsPartOf(version, v.s) THEN "yes" ELSE "no"
      [] v.kind = "list" -> IF \E i \in DOMAIN v.items : v.items[i] = version
                            THEN "yes" ELSE "no"
      [] OTHER -> "error"

\* conandata_yml_in[section][version] raises a TypeError unless the section
\* is a mapping
SubscriptFails(v) == v.kind # "map"

\* the section reduced to the entry of the version
Kept(v, version) ==
    [kind |-> "map",
     entries |-> [pk \in {StrKey(version)} |-> v.entries[StrKey(version)]]]

\* post_export, lines 14-30, on the file and the version of the recipe: the
\* file it leaves and the exception it raises
post_export(file, version) ==
    IF file = Absent THEN [file |-> file, err |-> "none"]
    ELSE LET conandata_yml_in == safe_load(file)
         IN  IF conandata_yml_in.kind = "None"
             THEN [file |-> file, err |-> "TypeError"]
             ELSE LET secs == conandata_yml_in.sections
                      has == {x \in DOMAIN secs : VersionIn(version, secs[x]) = "yes"}
                  IN  IF \/ \E x \in DOMAIN secs : VersionIn(version, secs[x]) = "error"
                         \/ \E x \in has : SubscriptFails(secs[x])
                      THEN [file |-> file, err |-> "TypeError"]
                      ELSE [file |-> safe_dump(
                                       [kind |-> "map",
                                        sections |-> [x \in has |->
                                                        Kept(secs[x], version)]]),
                            err |-> "none"]

\* an export directory with or without conandata.yml, and the version of
\* the recipe
InitHook ==
    /\ cloneOf = [p \in Procs |-> "c1"]
    /\ hasOrigin = [c \in Clones |-> TRUE]
    /\ head = [c \in Clones |-> "files"]
    /\ localBranch = [c \in Clones |-> 0]
    /\ originRef = [c \in Clones |-> 0]
    /\ remoteBranch = 0
    /\ tmp = [c \in Clones |-> NoTmp]
    /\ wt = [c \in Clones |-> NoWorktree]
    /\ commits = <<>>
    /\ clock = 1
    /\ cleanups = 0
    /\ run = [p \in Procs |-> IdleRun]
    /\ fsys = {}
    /\ disc = IdleDisc
    /\ \E f \in YmlFiles : \E v \in Versions :
          yml = [NoYml EXCEPT !.version = v, !.orig = f, !.file = f]

\* an export runs the hook; an exception of the hook ends the export
PostExport ==
    LET res == post_export(yml.file, yml.version)
    IN  /\ yml.runs < MaxHookRuns
        /\ yml.err = "none"
        /\ yml' = [yml EXCEPT !.prev = yml.file,
                              !.file = res.file,
                              !.err = res.err,
                              !.runs = @ + 1]
        /\ UNCHANGED <<cloneOf, hasOrigin, head, localBranch, originRef, tmp, wt,
                       remoteBranch, commits, clock, cleanups, run, fsys, disc>>

NextHook == PostExport

SpecHook == InitHook /\ [][NextHook]_vars

-----------------------------------------------------------------------------
(* Properties.                                                             *)

Ended(p) == run[p].pc = "done"

\* p is between its acquisition of the auxiliary checkout and its teardown
Holding(p) ==
    /\ run[p].acquired
    /\ run[p].pc \in {"populate", "commit", "push", "register", "teardown"}

Uploads == {p \in Procs : run[p].cmd = "upload"}

RecordSteps == {"prepare", "copy", "export_tgz", "sources_tgz", "snapshot",
                "files_json"}

\* files/, snapshot.json and files.json of the revision of e are in tree t
RecordComplete(t, e) ==
    /\ SnapshotPath(e) \in DOMAIN t
    /\ FilesJsonPath(e) \in DOMAIN t
    /\ \A f \in e.export \cup {"conan_export.tgz", "conan_sources.tgz"} :
          FilesDir(e) \o <<f>> \in DOMAIN t

\* C1, as stated: every upload that ran git worktree add (step 3), whether
\* it succeeded or raised, has run git worktree remove -f when it ends.
C1_TeardownAfterEveryAcquisition ==
    \A p \in Uploads :
        Ended(p) /\ Ran(p, "worktree_add") => Ran(p, "worktree_remove")

\* C1, amended: an upload that has ended has run the teardown exactly when
\* its step 3 succeeded, whatever the outcome of steps 4 and 5; when step 3
\* raised, the teardown was not run.
C1_TeardownIffAcquired ==
    \A p \in Uploads :
        Ended(p) => (Ran(p, "worktree_remove") <=> run[p].acquired)

\* an upload failed in step 4 or 5 and has ended after the teardown
C1_Witness ==
    \E p \in Uploads :
        /\ Ended(p)
        /\ run[p].acquired
        /\ run[p].failed \in StepSet \cup {"add", "commit", "push"}
        /\ Ran(p, "worktree_remove")

\* C2: latest.json is written by an upload only after files/, snapshot.json
\* and files.json of the revision were written without error; an upload in
\* which one of these steps failed has not written latest.json.
C2_LatestAfterRecord ==
    \A p \in Uploads :
        LET r == run[p]
            t == wt[Clone(p)].tree
        IN  /\ "latest" \in r.wrote => RecordSteps \subseteq r.wrote
            /\ r.failed \in RecordSteps => "latest" \notin r.wrote
            /\ Holding(p) /\ wt[Clone(p)].owner = p /\ r.now # 0 =>
                  /\ LatestPath(r.exp) \in DOMAIN t /\ t[LatestPath(r.exp)].time = r.now
                        => RecordComplete(t, r.exp) /\ r.failed \notin StepSet
                  /\ r.failed \in RecordSteps =>
                        \/ LatestPath(r.exp) \notin DOMAIN t
                        \/ t[LatestPath(r.exp)].time # r.now

\* one upload has written latest.json after the whole record, another has
\* failed while writing snapshot.json
C2_Witness ==
    \E p, q \in Uploads :
        /\ "latest" \in run[p].wrote
        /\ run[q].failed = "snapshot"
        /\ run[q].wrote = {"prepare", "copy", "export_tgz", "sources_tgz"}

\* C3: of the uploads of one clone at most one is between its acquisition of
\* .barbarian_upload and its teardown, and the checkout stays the holder's;
\* an upload whose acquisition failed has written nothing, created no commit
\* and has not run the teardown.
C3_OneHolder ==
    /\ \A p, q \in Procs :
          p # q /\ Clone(p) = Clone(q) => ~(Holding(p) /\ Holding(q))
    /\ \A p \in Procs :
          Holding(p) => wt[Clone(p)].present /\ wt[Clone(p)].owner = p
    /\ \A p \in Uploads :
          run[p].failed = "worktree_add" =>
              /\ ~run[p].acquired
              /\ run[p].wrote = {}
              /\ run[p].myCommit = 0
              /\ ~Ran(p, "commit")
              /\ ~Ran(p, "push")
              /\ ~Ran(p, "worktree_remove")

\* an upload failed to acquire the checkout that another upload holds
C3_Witness ==
    \E p, q \in Uploads :
        /\ p # q
        /\ Clone(p) = Clone(q)
        /\ Holding(q)
        /\ Ended(p)
        /\ run[p].failed = "worktree_add"

\* p and q, in different clones, have each committed on the same commit
SameTip(p, q) ==
    /\ Clone(p) # Clone(q)
    /\ run[p].myCommit # 0
    /\ run[q].myCommit # 0
    /\ commits[run[p].myCommit].parent = commits[run[q].myCommit].parent

\* C4: of two uploads that committed in different clones on the same tip of
\* the remote branch only one push is accepted; a push is rejected only when
\* the remote branch holds a commit the local branch lacks; the rejected
\* upload ends in an error after one push, without fetch, rebase, forced
\* push or registration call, and the remote branch keeps the accepted commit.
C4_SecondPushRejected ==
    /\ \A p, q \in Uploads :
          SameTip(p, q) /\ run[q].pushResult = "accepted" =>
              /\ run[p].pushResult # "accepted"
              /\ Ancestor(run[q].myCommit, remoteBranch)
    /\ \A p \in Uploads :
          run[p].pushResult = "rejected" =>
              /\ remoteBranch # 0
              /\ ~Ancestor(remoteBranch, run[p].myCommit)
              /\ ~Ancestor(run[p].myCommit, remoteBranch)
              /\ Ancestor(run[p].myCommit, localBranch[Clone(p)])
              /\ run[p].pc = "teardown" => localBranch[Clone(p)] = run[p].myCommit
              /\ run[p].err = "CalledProcessError"
              /\ run[p].failed = "push"
              /\ Count(run[p].log, "push") = 1
              /\ ~Ran(p, "register")
              /\ run[p].boot = NoBoot
              /\ run[p].pc \in {"teardown", "done"}
              /\ Ended(p) => /\ run[p].log[Len(run[p].log)] = "worktree_remove"
                             /\ run[p].log[Len(run[p].log) - 1] = "push"

\* two uploads on the same tip: one accepted, the other rejected and ended
C4_Witness ==
    \E p, q \in Uploads :
        /\ SameTip(p, q)
        /\ run[q].pushResult = "accepted"
        /\ run[p].pushResult = "rejected"
        /\ Ended(p)

\* C5: the commit of an upload stays on the local branch when its push
\* fails; a later upload of the clone (pending: that commit) finds the
\* branch in its bootstrap and neither fetches nor synthesizes it, commits
\* on the unpushed commit (or on commits other uploads of the clone put on
\* it), and when its push is accepted both commits are on the remote.
C5_RetryKeepsUnpushed ==
    /\ \A q \in Uploads :
          Ended(q) /\ run[q].myCommit # 0 =>
              Ancestor(run[q].myCommit, localBranch[Clone(q)])
    /\ \A p \in Uploads :
          LET r == run[p]
          IN  r.pending # 0 =>
                /\ Ancestor(r.pending, localBranch[Clone(p)])
                /\ r.boot.state # "raised"
                /\ r.boot.state = "returned" =>
                      /\ r.boot.hadLocal
                      /\ r.boot.log = <<>>
                /\ r.myCommit # 0 =>
                      LET parent == commits[r.myCommit].parent
                      IN  \/ parent = r.pending
                          \/ /\ commits[parent].by # p
                             /\ Ancestor(r.pending, parent)
                /\ r.pushResult = "accepted" =>
                      /\ Ancestor(r.pending, remoteBranch)
                      /\ Ancestor(r.myCommit, remoteBranch)

\* a re-run has committed on the unpushed commit and its push was accepted
C5_Witness ==
    \E p \in Uploads :
        /\ run[p].pending # 0
        /\ run[p].myCommit # 0
        /\ commits[run[p].myCommit].parent = run[p].pending
        /\ run[p].pushResult = "accepted"
        /\ Ancestor(run[p].pending, remoteBranch)

\* C6: while a checkout left behind by an interrupted upload is not removed
\* by hand, it stays as it is, and every upload of the clone that reaches
\* the acquisition ends there with an error: none populates, commits or
\* pushes.
C6_StaleCheckoutStays ==
    [][\A c \in Clones :
          Stale(c) /\ cleanups' = cleanups =>
              /\ wt'[c] = wt[c]
              /\ localBranch'[c] = localBranch[c]
              /\ \A p \in Procs :
                    Clone(p) = c /\ run[p].cmd = "upload" =>
                        /\ run'[p].pc \notin {"populate", "commit", "push",
                                              "register", "teardown"}
                        /\ run'[p].myCommit = run[p].myCommit
                        /\ run[p].pc = "acquire" /\ run'[p].pc # "acquire" =>
                              /\ run'[p].pc = "done"
                              /\ run'[p].failed = "worktree_add"
                              /\ run'[p].err = "CalledProcessError"]_vars

\* an upload has failed at the acquisition because of the checkout that an
\* interrupted upload left behind, which is still there
C6_Witness ==
    \E p, q \in Uploads :
        /\ Clone(p) = Clone(q)
        /\ run[q].pc = "killed"
        /\ Stale(Clone(p))
        /\ wt[Clone(p)].owner = q
        /\ Ended(p)
        /\ run[p].failed = "worktree_add"
        /\ cleanups = 0

SameRoot(c) == HaveBranch(c) /\ Root(localBranch[c]) = Root(remoteBranch)

PublishedFiles(p) ==
    ListDir(commits[run[p].myCommit].tree, FilesDir(run[p].exp))

\* C9, as stated: an upload of an export without export_source/ does not
\* fail because of the missing directory, and conan_sources.tgz is neither
\* written to files/ nor committed.
C9_MissingSourcesSkipped ==
    \A p \in Uploads :
        ~run[p].exp.hasSources =>
            /\ run[p].err # "FileNotFoundError"
            /\ Holding(p) /\ wt[Clone(p)].owner = p =>
                  "conan_sources.tgz" \notin ListDir(wt[Clone(p)].tree,
                                                     FilesDir(run[p].exp))
            /\ run[p].myCommit # 0 => "conan_sources.tgz" \notin PublishedFiles(p)

\* C10, as stated: after a successful upload files/ holds exactly
\* conan_export.tgz, conan_sources.tgz when there are bundled sources, and
\* the files of export/ other than conandata.yml.
C10_PublishedFilesExact ==
    \A p \in Uploads :
        Ended(p) /\ run[p].err = "none" =>
            PublishedFiles(p) =
                {"conan_export.tgz"}
                \cup (IF run[p].exp.hasSources THEN {"conan_sources.tgz"} ELSE {})
                \cup (run[p].exp.export \ {"conandata.yml"})

\* the tree of the commit that upload p has created
Committed(p) == commits[run[p].myCommit].tree

\* C11: in the commit of an upload, the keys of snapshot.json, the keys of
\* files.json["files"] and the names of the files in files/ of the revision
\* are the same set.
C11_ManifestKeySets ==
    \A p \in Uploads :
        run[p].myCommit # 0 =>
            LET t == Committed(p)
                e == run[p].exp
            IN  /\ SnapshotPath(e) \in DOMAIN t
                /\ FilesJsonPath(e) \in DOMAIN t
                /\ DOMAIN t[SnapshotPath(e)] = ListDir(t, FilesDir(e))
                /\ DOMAIN t[FilesJsonPath(e)].files = ListDir(t, FilesDir(e))

\* a successful upload has committed a record whose files/ holds recipe
\* files and both archives
C11_Witness ==
    \E p \in Uploads :
        /\ Ended(p)
        /\ run[p].err = "none"
        /\ run[p].myCommit # 0
        /\ {"conanfile.py", "conan_export.tgz", "conan_sources.tgz"}
              \subseteq DOMAIN Committed(p)[SnapshotPath(run[p].exp)]

\* the part of tree t below directory dir
SubTree(t, dir) == [q \in {x \in DOMAIN t : IsUnder(x, dir)} |-> t[q]]

\* C12, as stated: two uploads of the same unchanged export commit the same
\* revision record: files/ with the same bytes, the same snapshot.json and
\* the same files.json.
C12_ReuploadIdentical ==
    \A p, q \in Uploads :
        /\ p # q
        /\ Clone(p) = Clone(q)
        /\ run[p].exp = run[q].exp
        /\ run[p].myCommit # 0
        /\ run[q].myCommit # 0
        => SubTree(Committed(p), recipe_revision_pub_dir(run[p].exp))
              = SubTree(Committed(q), recipe_revision_pub_dir(run[q].exp))

\* the tree of the commit on which upload p has committed
ParentTree(p) == commits[commits[run[p].myCommit].parent].tree

\* C13: the revision directory in the commit of an upload is what the
\* upload of the export writes into an empty tree at that time: nothing of
\* what the directory held before is left, unless this run wrote it.
C13_RevisionReplacedWholesale ==
    \A p \in Uploads :
        run[p].myCommit # 0 =>
            LET e == run[p].exp
                fresh == PopulateResult(EmptyTree, e, run[p].now, "none").tree
            IN  SubTree(Committed(p), recipe_revision_pub_dir(e))
                   = SubTree(fresh, recipe_revision_pub_dir(e))

\* an upload has republished a revision whose directory held a file that
\* the export does not have
C13_Witness ==
    \E p \in Uploads :
        /\ run[p].myCommit # 0
        /\ run[p].err = "none"
        /\ OldFile(run[p].exp) \in DOMAIN ParentTree(p)
        /\ OldFile(run[p].exp) \notin DOMAIN Committed(p)

\* path is outside what an upload of export e may change
Frame(path, e) ==
    /\ ~IsUnder(path, recipe_revision_pub_dir(e))
    /\ path # LatestPath(e)

\* C14: in the commit of an upload of revision r of (name, version), every
\* file outside <name>/<version>/<r>/, other than <name>/<version>/
\* latest.json, is as in the parent commit: none added, removed or changed.
C14_OtherRecordsUnchanged ==
    \A p \in Uploads :
        run[p].myCommit # 0 =>
            LET e == run[p].exp
                t == Committed(p)
                t0 == ParentTree(p)
            IN  \A path \in DOMAIN t \cup DOMAIN t0 :
                    Frame(path, e) =>
                        /\ path \in DOMAIN t
                        /\ path \in DOMAIN t0
                        /\ t[path] = t0[path]

\* an upload has committed on a tree that held another revision of the
\* same (name, version) and the record and latest.json of another package
C14_Witness ==
    \E p \in Uploads :
        /\ run[p].myCommit # 0
        /\ run[p].err = "none"
        /\ LatestPath(OtherExport) \in DOMAIN Committed(p)
        /\ SnapshotPath(OtherExport) \in DOMAIN Committed(p)
        /\ \E path \in DOMAIN ParentTree(p) :
              /\ IsUnder(path, recipe_publish_dir(run[p].exp))
              /\ Frame(path, run[p].exp)
              /\ path \in DOMAIN Committed(p)

\* C15: the latest.json of (name, version) in the commit of an upload holds
\* the revision and the time of that upload, whatever it held before; so it
\* does at the tip of the branch after each upload.
C15_LatestIsLastUpload ==
    \A p \in Uploads :
        run[p].myCommit # 0 =>
            LET e == run[p].exp
            IN  /\ LatestPath(e) \in DOMAIN Committed(p)
                /\ Committed(p)[LatestPath(e)] = Latest(e, run[p].now)
                /\ run[p].now > 0
                /\ localBranch[Clone(p)] = run[p].myCommit =>
                      commits[localBranch[Clone(p)]].tree[LatestPath(e)].revision
                         = e.rev

\* revision A was published, then B, then A again, and latest.json at the
\* tip names A with the time of the last upload
C15_Witness ==
    \E p, q \in Uploads :
        /\ run[p].myCommit # 0
        /\ run[q].myCommit # 0
        /\ commits[run[q].myCommit].parent = run[p].myCommit
        /\ ParentTree(p)[LatestPath(run[p].exp)].revision = run[q].exp.rev
        /\ run[p].exp.rev # run[q].exp.rev
        /\ LatestPath(run[p].exp) = LatestPath(run[q].exp)
        /\ localBranch[Clone(q)] = run[q].myCommit
        /\ commits[localBranch[Clone(q)]].tree[LatestPath(run[q].exp)]
              = Latest(run[q].exp, run[q].now)

\* C16: an upload in a repository without a usable origin ends at the check
\* of the remote with a usage error, once, before the bootstrap: it has run
\* git remote show only, has neither fetched nor created the branch, added
\* no checkout, written, committed and pushed nothing.
C16_NoOriginIsUsageError ==
    \A p \in Uploads :
        /\ ~hasOrigin[Clone(p)] /\ Ran(p, "remote_show") =>
              run[p].failed = "remote_show"
        /\ run[p].failed = "remote_show" =>
              /\ run[p].err = "UsageError"
              /\ run[p].pc = "done"
              /\ run[p].log = <<"remote_show">>
              /\ run[p].boot = NoBoot
              /\ ~run[p].acquired
              /\ run[p].wrote = {}
              /\ run[p].myCommit = 0
              /\ run[p].pushResult = "none"
              /\ \A i \in DOMAIN commits : commits[i].by # p

\* an upload has ended with the usage error in a repository with no origin
\* and no branch
C16_Witness ==
    \E p \in Uploads :
        /\ ~hasOrigin[Clone(p)]
        /\ Ended(p)
        /\ run[p].failed = "remote_show"
        /\ run[p].err = "UsageError"
        /\ localBranch[Clone(p)] = 0
        /\ ~wt[Clone(p)].present

ExportTgzPath(e) == FilesDir(e) \o <<"conan_export.tgz">>

\* the entries (name in the archive, content) that conan_export.tgz of
\* export e has to hold
ExportTgzEntries(e) ==
    IF "conandata.yml" \in e.export
    THEN {<<"conandata.yml", Bytes(e, "conandata.yml")>>}
    ELSE {}

\* C17: once an upload has written conan_export.tgz, the archive is in
\* files/ and holds no entry when export/ has no conandata.yml, and else the
\* one entry conandata.yml; so it is in the commit; the step raises no
\* error of its own when conandata.yml is missing.
C17_ExportTgzEntries ==
    \A p \in Uploads :
        LET e == run[p].exp
        IN  /\ /\ Holding(p)
               /\ wt[Clone(p)].owner = p
               /\ "export_tgz" \in run[p].wrote
               => /\ ExportTgzPath(e) \in DOMAIN wt[Clone(p)].tree
                  /\ wt[Clone(p)].tree[ExportTgzPath(e)]
                        = Tgz(ExportTgzEntries(e), run[p].now)
            /\ run[p].myCommit # 0 =>
                  /\ ExportTgzPath(e) \in DOMAIN Committed(p)
                  /\ Committed(p)[ExportTgzPath(e)]
                        = Tgz(ExportTgzEntries(e), run[p].now)
            /\ run[p].failed = "export_tgz" => run[p].err = "OSError"
            /\ run[p].wrote # {} /\ run[p].failed \notin {"prepare", "copy", "export_tgz"}
                  => "export_tgz" \in run[p].wrote

\* one upload of an export without conandata.yml has succeeded with an
\* archive of no entry, one of an export with conandata.yml has committed
\* an archive of one entry
C17_Witness ==
    \E p, q \in Uploads :
        /\ "conandata.yml" \notin run[p].exp.export
        /\ Ended(p)
        /\ run[p].err = "none"
        /\ Committed(p)[ExportTgzPath(run[p].exp)][2] = {}
        /\ "conandata.yml" \in run[q].exp.export
        /\ run[q].myCommit # 0
        /\ Cardinality(Committed(q)[ExportTgzPath(run[q].exp)][2]) = 1

\* the part of the reference after '@' and its parts between '/'
GivenUserAndChannel(reference) ==
    IF Find(reference, "@") = 0 THEN <<>>
    ELSE Split(SubSeq(reference, Find(reference, "@") + 1, Len(reference)), "/")

UserGiven(reference) ==
    /\ Len(GivenUserAndChannel(reference)) > 0
    /\ GivenUserAndChannel(reference)[1] # <<>>

ChannelGiven(reference) ==
    /\ Len(GivenUserAndChannel(reference)) > 1
    /\ GivenUserAndChannel(reference)[2] # <<>>

\* C18, as stated: for the reference of every upload that was started, also
\* one with nothing after '@', with a user only or with no '@', the setter
\* raises nothing, the derived user and channel are not empty, and each is
\* "_" when the reference omits it.
C18_UserAndChannelDefault ==
    \A p \in Uploads :
        LET reference == run[p].exp.reference
            uc == recipe_user_and_channel(reference)
        IN  /\ uc.err = "none"
            /\ run[p].err # "IndexError"
            /\ uc.user # <<>>
            /\ uc.channel # <<>>
            /\ ~UserGiven(reference) => uc.user = <<"_">>
            /\ ~ChannelGiven(reference) => uc.channel = <<"_">>

\* the revision record in directory d of tree t has its manifests, which
\* list its files, and both archives
RecordWhole(t, d) ==
    /\ d \o <<"snapshot.json">> \in DOMAIN t
    /\ d \o <<"files.json">> \in DOMAIN t
    /\ DOMAIN t[d \o <<"snapshot.json">>] = ListDir(t, d \o <<"files">>)
    /\ DOMAIN t[d \o <<"files.json">>].files = ListDir(t, d \o <<"files">>)
    /\ {"conan_export.tgz", "conan_sources.tgz"} \subseteq ListDir(t, d \o <<"files">>)

\* every revision directory of tree t holds a whole record, and every
\* latest.json names a revision that has one
TreeWhole(t) ==
    /\ \A q \in DOMAIN t :
          Len(q) > 3 => RecordWhole(t, SubSeq(q, 1, 3))
    /\ \A q \in DOMAIN t :
          Len(q) = 3 /\ q[3] = "latest.json" =>
              RecordWhole(t, <<q[1], q[2], t[q].revision>>)

PreCommitSteps == StepSet \cup {"add"}

\* the commit store holds a commit made by git commit of upload p
UploadCommitOf(p) ==
    \E i \in DOMAIN commits :
        commits[i].by = p /\ commits[i].msg[1] = "Upload"

\* C19: an upload that failed after the acquisition and before its commit
\* has created no commit and pushed nothing; while an upload holds the
\* checkout and has not committed, the local branch does not move; and
\* every commit of the tool holds whole revision records only, with every
\* latest.json naming one of them.
C19_UploadAtomic ==
    /\ [](\A p \in Uploads :
             run[p].failed \in PreCommitSteps =>
                 /\ run[p].acquired
                 /\ run[p].myCommit = 0
                 /\ run[p].pushResult = "none"
                 /\ ~Ran(p, "commit")
                 /\ ~Ran(p, "push")
                 /\ ~UploadCommitOf(p))
    /\ [](\A i \in DOMAIN commits : TreeWhole(commits[i].tree))
    /\ [][\A p \in Procs :
             Holding(p) /\ run'[p].myCommit = 0 =>
                 /\ localBranch'[Clone(p)] = localBranch[Clone(p)]
                 /\ commits' = commits]_vars

\* an upload has ended after a failure between the manifests and the
\* commit, with the files it wrote before, and the branch has no commit of it
C19_Witness ==
    \E p \in Uploads :
        /\ Ended(p)
        /\ run[p].failed \in {"files_json", "latest", "add"}
        /\ "snapshot" \in run[p].wrote
        /\ localBranch[Clone(p)] # 0
        /\ ~UploadCommitOf(p)

\* the local branch of c exists and the remote branch holds a commit that
\* the local branch does not contain
Diverged(c) ==
    /\ localBranch[c] # 0
    /\ remoteBranch # 0
    /\ ~Ancestor(remoteBranch, localBranch[c])

\* C20: once the local branch of a clone lacks a commit of the remote
\* branch, it stays so: no command of the clone has its push accepted,
\* every push that ends is rejected or fails, the local branch moves only
\* by a commit on its own tip (nothing is fetched or merged into it), and
\* the remote branch is not moved by this clone.
C20_StaleTipNeverPushed ==
    [][\A c \in Clones :
          Diverged(c) =>
              /\ Diverged(c)'
              /\ localBranch'[c] # localBranch[c] =>
                    commits'[localBranch'[c]].parent = localBranch[c]
              /\ \A p \in Procs :
                    Clone(p) = c =>
                        /\ run'[p].pushResult = "accepted" =>
                              run[p].pushResult = "accepted"
                        /\ run[p].pc = "push" /\ run'[p].pc \notin {"push", "killed"}
                              => /\ run'[p].pushResult \in {"rejected", "failed"}
                                 /\ run'[p].err = "CalledProcessError"
                                 /\ remoteBranch' = remoteBranch]_vars

\* the remote branch holds a commit that the local branch lacks; an upload
\* has ended with its push rejected, and a re-run, started on the commit
\* that upload left, has committed on it and has ended with its push
\* rejected too
C20_Witness ==
    \E p, q \in Uploads :
        /\ Clone(p) = Clone(q)
        /\ Diverged(Clone(p))
        /\ Ended(q)
        /\ run[q].pushResult = "rejected"
        /\ run[p].pending = run[q].myCommit
        /\ Ended(p)
        /\ run[p].pushResult = "rejected"
        /\ commits[run[p].myCommit].parent = run[q].myCommit
        /\ run[p].myCommit = localBranch[Clone(p)]

\* bootstrap of p had to synthesize the branch: it has run the git worktree
\* add of the temporary checkout
Synthesizing(p) == BootRan(p, "worktree_add_tmp")

\* the usage error about a missing HEAD revision has been raised in p
MissingHeadReported(p) ==
    /\ run[p].err = "UsageError"
    /\ run[p].failed = "worktree_add_tmp"

\* C21, as stated: a bootstrap that has to synthesize the branch in a
\* repository without any commit ends with a usage error and runs nothing
\* more (no retry); the step that raises leaves no barbarian branch; and
\* the usage error about a missing HEAD revision is reported only in a
\* repository without any commit.
C21_MissingHeadOnlyWithoutCommit ==
    /\ [](\A p \in Procs :
            /\ Synthesizing(p) /\ head[Clone(p)] = "none" =>
                  /\ MissingHeadReported(p)
                  /\ Ended(p)
                  /\ run[p].boot.state = "raised"
                  /\ run[p].boot.log[Len(run[p].boot.log)] = "worktree_add_tmp"
                  /\ Count(run[p].boot.log, "worktree_add_tmp") = 1
                  /\ Count(run[p].boot.log, "fetch") <= 1
            /\ MissingHeadReported(p) => head[Clone(p)] = "none")
    /\ [][\A p \in Procs :
            ~MissingHeadReported(p) /\ MissingHeadReported(p)' =>
                /\ ~HaveBranch(Clone(p))'
                /\ commits' = commits]_vars

\* bootstrap of p has synthesized the branch and has returned
Synthesized(p) ==
    /\ run[p].boot.state = "returned"
    /\ BootRan(p, "orphan_commit")

\* C22: the step in which bootstrap synthesizes the branch and succeeds
\* leaves the barbarian branch on one new commit that has no parent and an
\* empty tree (no commit and no file of HEAD is in it), and leaves neither
\* the branch barbarian-tmp nor the checkout .barbarian.tmp.
C22_SynthesizedBranchIsEmptyRoot ==
    [][\A p \in Procs :
          ~Synthesized(p) /\ Synthesized(p)' =>
              LET c == Clone(p)
                  tip == localBranch'[c]
              IN  /\ tip = Len(commits')
                  /\ tip \notin DOMAIN commits
                  /\ commits'[tip].parent = 0
                  /\ commits'[tip].tree = EmptyTree
                  /\ DOMAIN commits'[tip].tree \cap DOMAIN HeadTree(c) = {}
                  /\ ~tmp'[c].branch
                  /\ ~tmp'[c].checkout]_vars

\* bootstrap has just synthesized the branch in a repository whose HEAD has
\* files: the branch is on the new root commit, nothing temporary is left
C22_Witness ==
    \E p \in Procs :
        /\ Synthesized(p)
        /\ head[Clone(p)] = "files"
        /\ DOMAIN HeadTree(Clone(p)) # {}
        /\ localBranch[Clone(p)] = Len(commits)
        /\ commits[Len(commits)].by = p
        /\ commits[Len(commits)].parent = 0
        /\ commits[Len(commits)].tree = EmptyTree
        /\ tmp[Clone(p)] = NoTmp

\* the directory the discovery starts from
DiscStart == IF disc.recipe_dir # <<>> THEN disc.recipe_dir ELSE disc.cwd

\* directory d contains an entry .git
HasGit(d) ==
    (IF d = <<"/">> THEN <<"/", ".git">> ELSE d \o <<"/", ".git">>) \in fsys

\* the start and the directories above it that contain .git
GitAbove == {d \in Dirs : SelfOrAbove(d, DiscStart) /\ HasGit(d)}

\* the number of directories from d up to the root
Depth(d) == Cardinality({i \in DOMAIN d : d[i] # "/"})

\* C23: the discovery of the root directory ends, from the recipe directory
\* or the current directory, after at most one test per directory from the
\* start up to the root: with the nearest of the start and the directories
\* above it that contain .git as root_dir, and with a usage error when none
\* of them contains .git.
C23_RootDiscoveryTerminates ==
    /\ [](disc.pc = "found" =>
            /\ disc.root_dir \in GitAbove
            /\ \A d \in GitAbove : Len(d) <= Len(disc.root_dir)
            /\ disc.err = "none")
    /\ [](disc.pc = "raised" =>
            /\ GitAbove = {}
            /\ disc.err = "UsageError"
            /\ disc.root_dir = <<>>)
    /\ [](disc.tests <= Depth(DiscStart) + 1)
    /\ <>(disc.pc \in {"found", "raised"})
    /\ (GitAbove = {} => <>(disc.pc = "raised"))

\* the discovery has walked from a deepest directory up to the root and has
\* raised, while another directory holds .git
C23_Witness ==
    /\ disc.pc = "raised"
    /\ disc.err = "UsageError"
    /\ Depth(DiscStart) = MaxDepth
    /\ disc.tests = MaxDepth + 1
    /\ disc.dir = <<"/">>
    /\ fsys # {}

\* the sections of the file as it was before the hook ran
OrigSections == IF yml.orig.kind = "map" THEN yml.orig.sections ELSE EmptyTree

\* the keys of section v of the file that name the version: the version
\* as a string (a plain 1.3 is the number, not the version "1.3")
VersionKeys(v, version) ==
    IF v.kind = "map"
    THEN {k \in DOMAIN v.entries : k.text = version /\ LoadKey(k).type = "str"}
    ELSE {}

\* C24, as stated: after the hook has run on an existing conandata.yml the
\* file holds exactly the sections that had an entry for the version of the
\* recipe, each with that entry alone; a second run leaves the file as the
\* first run left it; without conandata.yml the hook creates nothing.
C24_HookKeepsVersionEntries ==
    /\ yml.orig = Absent => yml.file = Absent /\ yml.err = "none"
    /\ yml.orig # Absent /\ yml.runs >= 1 =>
          /\ yml.err = "none"
          /\ yml.file.kind = "map"
          /\ LET now == safe_load(yml.file).sections
                 had == {x \in DOMAIN OrigSections :
                            VersionKeys(OrigSections[x], yml.version) # {}}
             IN  /\ DOMAIN now = had
                 /\ \A x \in had :
                       /\ now[x].kind = "map"
                       /\ DOMAIN now[x].entries = {StrKey(yml.version)}
                       /\ \E k \in VersionKeys(OrigSections[x], yml.version) :
                             now[x].entries[StrKey(yml.version)]
                                = OrigSections[x].entries[k]
    /\ yml.runs = 2 => yml.file = yml.prev

====
